---- MODULE Spec2Model ----
(***************************************************************************)
(* LazyMap<K, V> of shared/src/ledger/storage_api/collections/lazy_map.rs: *)
(* a map adapter over a key-value storage backend.  A LazyMap holds only   *)
(* its storage key; every element lives in the backend at                  *)
(*     self.key / "data" / key.to_string().                                *)
(*                                                                         *)
(* The model instantiates K with a type whose Display form shows only a    *)
(* part of the value (two K values may print alike), and V with u16, borsh *)
(* encoded as two little-endian bytes.  The backend (StorageRead and       *)
(* StorageWrite) is not part of the file; it is modelled from its contract.*)
(***************************************************************************)
EXTENDS Naturals, Sequences, FiniteSets, TLC

VARIABLES
    storage,    \* the backend: storage key -> Option<bytes>
    maps,       \* the LazyMap instances in scope, per storage key given to new
    cursor,     \* the iterator returned by iter(), or NoIter
    last,       \* history: the last completed LazyMap call and its result
    shadow      \* history: the logical collection, per root key and key string

vars == <<storage, maps, cursor, last, shadow>>

----------------------------------------------------------------------------
(* Bounds of the model *)

\* number of LazyMap instances in scope at once
MaxInstances == 2
\* number of times the backend cursor may report an error during one iteration
MaxCursorErrs == 1

----------------------------------------------------------------------------
(* Option and Result *)

None == <<>>
Some(x) == <<x>>
Unwrap(o) == o[1]

Ok(x) == [tag |-> "Ok", val |-> x]
Err(e) == [tag |-> e, val |-> <<>>]
IsOk(r) == r.tag = "Ok"

BackendError == "BackendError"
DecodeError == "DecodeError"

----------------------------------------------------------------------------
(* The type parameters *)

\* K: Display shows `name` only; `tag` is invisible to to_string
K == [name : {"alice", "bob"}, tag : {0}] \cup [name : {"alice"}, tag : {1}]
to_string(key) == key.name

\* V = u16
V == {10, 300}

\* borsh: u16 is two bytes, little endian
Encode(val) == <<val % 256, val \div 256>>
\* V::try_from_slice: fails unless exactly two bytes are given
try_from_slice(bytes) ==
    IF Len(bytes) = 2 THEN Ok(bytes[1] + 256 * bytes[2]) ELSE Err(DecodeError)

\* bytes found in the backend that no LazyMap<K, V> wrote: one byte, which
\* is no u16
CorruptBytes == {<<7>>}

----------------------------------------------------------------------------
(* storage::Key and the key derivation *)

DATA_SUBKEY == "data"

\* storage::Key::push: append one segment
push(key, seg) == Append(key, seg)

\* storage keys the maps of the model are bound to; the second lies under
\* the data prefix of the first
Roots == {<<"m">>, <<"m", "data", "alice">>}

\* new that binds every map to one and the same storage key
new_fixed(key) == [key |-> <<"m">>]

new(key) == [key |-> key]

\* get_data_prefix that does not look at the map's own key
get_data_prefix_fixed(self) == push(<<"m">>, DATA_SUBKEY)

get_data_prefix(self) == push(self.key, DATA_SUBKEY)

get_data_key_nokey(self, key) == get_data_prefix(self)
get_data_key(self, key) == push(get_data_prefix(self), to_string(key))

\* the physical key layout the adapter owns: root / "data" / string form
ElementKey(root, name) == root \o <<"data", name>>

\* the keys of the backend: the element keys of the maps, and the maps' own
\* root keys and data prefixes, where no element lives
StorageKeys ==
    {ElementKey(r, to_string(k)) : r \in Roots, k \in K}
        \cup Roots \cup {r \o <<"data">> : r \in Roots}

IsPrefix(p, key) == Len(p) <= Len(key) /\ SubSeq(key, 1, Len(p)) = p

----------------------------------------------------------------------------
(* The backend: StorageRead and StorageWrite.  `err` is the backend's own  *)
(* failure (I/O, out of gas), an input of each call.  Every call answers   *)
(* with its result, the backend's data after it, and the call's name.      *)

\* StorageRead::read::<V>: the bytes at the key, decoded
read(s, key, err) ==
    [res |-> IF err THEN Err(BackendError)
             ELSE IF s[key] = None THEN Ok(None)
             ELSE LET d == try_from_slice(Unwrap(s[key])) IN
                  IF IsOk(d) THEN Ok(Some(d.val)) ELSE d,
     storage |-> s,
     calls |-> <<"read">>]

\* StorageWrite::write: a failed write leaves the backend as it was
write(s, key, val, err) ==
    [res |-> IF err THEN Err(BackendError) ELSE Ok(None),
     storage |-> IF err THEN s ELSE [s EXCEPT ![key] = Some(Encode(val))],
     calls |-> <<"write">>]

\* StorageWrite::delete: deleting an absent key is not an error
delete(s, key, err) ==
    [res |-> IF err THEN Err(BackendError) ELSE Ok(None),
     storage |-> IF err THEN s ELSE [s EXCEPT ![key] = None],
     calls |-> <<"delete">>]

\* StorageRead::iter_prefix: a cursor over the entries under the prefix; the
\* cursor is the set of keys it has still to visit
iter_prefix(s, prefix, err) ==
    [res |-> IF err THEN Err(BackendError)
             ELSE Ok({key \in DOMAIN s : IsPrefix(prefix, key) /\ s[key] # None}),
     storage |-> s,
     calls |-> <<"iter_prefix">>]

\* StorageRead::iter_next: the entry the cursor moves over (`pick`, in the
\* order of the backend's choosing), or None at the end of the data; a
\* failed call leaves the cursor where it was
iter_next(s, it, pick, err) ==
    [res |-> IF err THEN Err(BackendError)
             ELSE IF it = {} THEN Ok(None)
             ELSE Ok(Some(<<pick, Unwrap(s[pick])>>)),
     iter |-> IF err \/ it = {} THEN it ELSE it \ {pick},
     calls |-> <<"iter_next">>]

----------------------------------------------------------------------------
(* LazyMap: insert, remove, get.  Each operator gives the call's result,   *)
(* the backend's data after it and the backend calls it issued, in order.  *)

read_key_val(s, storage_key, err) == read(s, storage_key, err)

\* write_key_val that answers Ok without asking the backend to write
write_key_val_noop(s, storage_key, val, err) ==
    [res |-> Ok(None), storage |-> s, calls |-> <<>>]

write_key_val(s, storage_key, val, err) == write(s, storage_key, val, err)

get(self, s, key, rdErr) ==
    LET data_key == get_data_key(self, key)
    IN  read_key_val(s, data_key, rdErr)

\* insert that keeps the entry it finds: writes only when the key is absent
insert_keep(self, s, key, val, rdErr, wrErr) ==
    LET previous == get(self, s, key, rdErr) IN
    IF ~IsOk(previous.res) \/ previous.res.val # None THEN previous
    ELSE LET data_key == get_data_key(self, key)
             w == write_key_val(previous.storage, data_key, val, wrErr)
         IN  [res |-> IF ~IsOk(w.res) THEN w.res ELSE Ok(previous.res.val),
              storage |-> w.storage,
              calls |-> previous.calls \o w.calls]

\* insert that reads the previous value after it has written the new one
insert_write_first(self, s, key, val, rdErr, wrErr) ==
    LET data_key == get_data_key(self, key)
        w == write_key_val(s, data_key, val, wrErr)
    IN  IF ~IsOk(w.res) THEN w
        ELSE LET previous == get(self, w.storage, key, rdErr)
             IN  [res |-> previous.res,
                  storage |-> w.storage,
                  calls |-> w.calls \o previous.calls]

\* insert that takes a failed read of the previous value for "no entry"
insert_unwrap_or(self, s, key, val, rdErr, wrErr) ==
    LET previous == get(self, s, key, rdErr)
        data_key == get_data_key(self, key)
        w == write_key_val(previous.storage, data_key, val, wrErr)
    IN  [res |-> IF ~IsOk(w.res) THEN w.res
                 ELSE IF IsOk(previous.res) THEN Ok(previous.res.val)
                 ELSE Ok(None),
         storage |-> w.storage,
         calls |-> previous.calls \o w.calls]

\* insert that writes the value at the element key and again at the data
\* prefix
insert_two_writes(self, s, key, val, rdErr, wrErr) ==
    LET previous == get(self, s, key, rdErr) IN
    IF ~IsOk(previous.res) THEN previous
    ELSE LET data_key == get_data_key(self, key)
             w == write_key_val(previous.storage, data_key, val, wrErr)
             x == write_key_val(w.storage, get_data_prefix(self), val, wrErr)
         IN  [res |-> IF ~IsOk(w.res) THEN w.res ELSE Ok(previous.res.val),
              storage |-> x.storage,
              calls |-> previous.calls \o w.calls \o x.calls]

insert(self, s, key, val, rdErr, wrErr) ==
    LET previous == get(self, s, key, rdErr) IN
    IF ~IsOk(previous.res) THEN previous
    ELSE LET data_key == get_data_key(self, key)
             w == write_key_val(previous.storage, data_key, val, wrErr)
         IN  [res |-> IF ~IsOk(w.res) THEN w.res ELSE Ok(previous.res.val),
              storage |-> w.storage,
              calls |-> previous.calls \o w.calls]

\* remove that issues the delete only when the read found an entry
remove_skip_absent(self, s, key, rdErr, delErr) ==
    LET value == get(self, s, key, rdErr) IN
    IF ~IsOk(value.res) \/ value.res.val = None THEN value
    ELSE LET data_key == get_data_key(self, key)
             d == delete(value.storage, data_key, delErr)
         IN  [res |-> IF ~IsOk(d.res) THEN d.res ELSE Ok(value.res.val),
              storage |-> d.storage,
              calls |-> value.calls \o d.calls]

\* remove that reads the value and leaves the entry in place
remove_nodelete(self, s, key, rdErr, delErr) == get(self, s, key, rdErr)

remove(self, s, key, rdErr, delErr) ==
    LET value == get(self, s, key, rdErr) IN
    IF ~IsOk(value.res) THEN value
    ELSE LET data_key == get_data_key(self, key)
             d == delete(value.storage, data_key, delErr)
         IN  [res |-> IF ~IsOk(d.res) THEN d.res ELSE Ok(value.res.val),
              storage |-> d.storage,
              calls |-> value.calls \o d.calls]

\* iter that scans under the map's own key instead of its data prefix
iter_root(self, s, err) == iter_prefix(s, self.key, err)

\* iter that moves the cursor over the first entry as it opens it
iter_eager(self, s, err) ==
    LET p == iter_prefix(s, get_data_prefix(self), err) IN
    IF ~IsOk(p.res) \/ p.res.val = {} THEN p
    ELSE LET n == iter_next(s, p.res.val, CHOOSE key \in p.res.val : TRUE, FALSE)
         IN  [res |-> Ok(n.iter), storage |-> s, calls |-> p.calls \o n.calls]

\* iter: opens the cursor; nothing is read yet
iter(self, s, err) == iter_prefix(s, get_data_prefix(self), err)

\* the closure given to itertools::unfold: one pull of the iterator.
\* `item` is None at the end of the sequence, else Some(Ok(v)) or Some(Err(e))
\* the closure ending the sequence at the first value that does not decode
unfold_fused(s, it, pick, err) ==
    LET n == iter_next(s, it, pick, err)
        d == try_from_slice(Unwrap(n.res.val)[2])
    IN  [item |-> IF ~IsOk(n.res) THEN Some(Err(n.res.tag))
                  ELSE IF n.res.val = None THEN None
                  ELSE IF IsOk(d) THEN Some(d) ELSE None,
         iter |-> n.iter,
         calls |-> n.calls]

\* the closure leaving the cursor on an entry that does not decode
unfold_stay(s, it, pick, err) ==
    LET n == iter_next(s, it, pick, err)
        stay == IsOk(n.res) /\ n.res.val # None
                    /\ ~IsOk(try_from_slice(Unwrap(n.res.val)[2]))
    IN  [item |-> IF ~IsOk(n.res) THEN Some(Err(n.res.tag))
                  ELSE IF n.res.val = None THEN None
                  ELSE Some(try_from_slice(Unwrap(n.res.val)[2])),
         iter |-> IF stay THEN it ELSE n.iter,
         calls |-> n.calls]

unfold(s, it, pick, err) ==
    LET n == iter_next(s, it, pick, err) IN
    [item |-> IF ~IsOk(n.res) THEN Some(Err(n.res.tag))
              ELSE IF n.res.val = None THEN None
              ELSE Some(try_from_slice(Unwrap(n.res.val)[2])),
     iter |-> n.iter,
     calls |-> n.calls]

----------------------------------------------------------------------------
(* State machine *)

NoMap == [key |-> <<>>]
NoIter == [open |-> FALSE]
Names == {to_string(k) : k \in K}

\* where the backend fails during one call: nowhere, at its read, or at its
\* write or delete
Faults == {"none", "read", "write"}

\* An instance is an immutable value (every method takes &self), so the
\* instances made with one storage key are kept as that value and their
\* number: maps[root] = [self |-> the instance, n |-> how many are in scope].
Live(root) == maps[root].n > 0

RECURSIVE Sum(_, _)
Sum(f, S) == IF S = {} THEN 0
             ELSE LET x == CHOOSE x \in S : TRUE IN f[x].n + Sum(f, S \ {x})

InScope == Sum(maps, Roots)

\* The history of one completed call: the storage key its instance was
\* constructed with, the arguments, where the backend failed, for an insert
\* that directly follows a successful insert through the same root key of
\* another key with the same string form: that key, what the call answered
\* and the backend calls it issued, the backend's
\* data before the call, and what was known of the entry before the call.
NoKey == [name |-> "", tag |-> 0]

Call(op, root, key, val, fault, r, was) ==
    [op |-> op, root |-> root, key |-> key, val |-> val, fault |-> fault,
     follows |-> IF op = "insert" /\ last.op = "insert" /\ IsOk(last.res)
                    /\ last.root = root /\ last.key # key
                    /\ to_string(last.key) = to_string(key)
                 THEN last.key ELSE NoKey,
     res |-> r.res, calls |-> r.calls, pre |-> storage, was |-> was]

NoCall == [op |-> "none"]

\* The logical collection: per root key and key string, the entry is
\* foreign (bytes no LazyMap call wrote), absent, or present with a value.
Foreign == [st |-> "foreign", val |-> 0]
Absent == [st |-> "absent", val |-> 0]
Present(val) == [st |-> "present", val |-> val]

\* No instance is in scope and no call has been made.  The backend holds
\* nothing a LazyMap<K, V> wrote; any element key may hold foreign bytes
\* (entries with values come about by insert).
Init ==
    /\ storage \in [StorageKeys -> {None} \cup {Some(b) : b \in CorruptBytes}]
    /\ \A key \in StorageKeys :
          storage[key] # None => \E r \in Roots, n \in Names : key = ElementKey(r, n)
    /\ maps = [r \in Roots |-> [self |-> NoMap, n |-> 0]]
    /\ cursor = NoIter
    /\ last = NoCall
    /\ shadow = [r \in Roots |-> [n \in Names |->
                    IF storage[ElementKey(r, n)] = None THEN Absent ELSE Foreign]]

\* LazyMap::new(key): one more instance in scope
New(key) ==
    /\ InScope < MaxInstances
    /\ ~cursor.open
    /\ maps' = [maps EXCEPT ![key] = [self |-> new(key), n |-> @.n + 1]]
    /\ UNCHANGED <<storage, cursor, last, shadow>>

\* an instance made with `key` goes out of scope
Drop(key) ==
    /\ Live(key)
    /\ ~cursor.open
    /\ maps' = [maps EXCEPT ![key] = IF @.n = 1 THEN [self |-> NoMap, n |-> 0]
                                     ELSE [@ EXCEPT !.n = @ - 1]]
    /\ UNCHANGED <<storage, cursor, last, shadow>>

\* insert(&self, &mut storage, key, val) through an instance made with
\* `root`: needs the backend exclusively, so no iterator borrowing it is alive
Insert(root, key, val, fault) ==
    /\ Live(root)
    /\ ~cursor.open
    /\ LET r == insert(maps[root].self, storage, key, val,
                       fault = "read", fault = "write")
           was == shadow[root][to_string(key)]
       IN  /\ storage' = r.storage
           /\ last' = Call("insert", root, key, val, fault, r, was)
           /\ shadow' = IF IsOk(r.res)
                        THEN [shadow EXCEPT ![root][to_string(key)] = Present(val)]
                        ELSE shadow
    /\ UNCHANGED <<maps, cursor>>

\* remove(&self, &mut storage, &key)
Remove(root, key, fault) ==
    /\ Live(root)
    /\ ~cursor.open
    /\ LET r == remove(maps[root].self, storage, key,
                       fault = "read", fault = "write")
           was == shadow[root][to_string(key)]
       IN  /\ storage' = r.storage
           /\ last' = Call("remove", root, key, 0, fault, r, was)
           /\ shadow' = IF IsOk(r.res)
                        THEN [shadow EXCEPT ![root][to_string(key)] = Absent]
                        ELSE shadow
    /\ UNCHANGED <<maps, cursor>>

\* get(&self, &storage, &key); the model runs one call at a time, and none
\* while an iterator is alive
Get(root, key, rdErr) ==
    /\ Live(root)
    /\ ~cursor.open
    /\ LET r == get(maps[root].self, storage, key, rdErr)
           was == shadow[root][to_string(key)]
       IN  /\ storage' = r.storage
           /\ last' = Call("get", root, key, 0, IF rdErr THEN "read" ELSE "none",
                           r, was)
    /\ UNCHANGED <<maps, cursor, shadow>>

\* iter(&self, &storage): the iterator borrows the backend until it is dropped
Iter(root, err) ==
    /\ Live(root)
    /\ ~cursor.open
    /\ LET r == iter(maps[root].self, storage, err) IN
       /\ last' = [op |-> "iter", root |-> root, res |-> r.res.tag,
                   calls |-> r.calls, pre |-> storage]
       /\ cursor' = IF IsOk(r.res)
                    THEN [open |-> TRUE, root |-> root, iter |-> r.res.val,
                          items |-> <<>>, pulls |-> <<>>, errs |-> 0,
                          failed |-> FALSE, spin |-> 0, done |-> FALSE]
                    ELSE cursor
       /\ storage' = r.storage
    /\ UNCHANGED <<maps, shadow>>

\* Iterator::next on the iterator: one pull.  `pick` is the entry the
\* backend's cursor comes to next (the order is the backend's); `err` is a
\* failure of the cursor
Pull(pick, err) ==
    /\ cursor.open
    /\ ~cursor.done
    /\ pick \in cursor.iter \/ (cursor.iter = {} /\ pick = CHOOSE k \in StorageKeys : TRUE)
    /\ err => cursor.errs < MaxCursorErrs
    /\ LET u == unfold(storage, cursor.iter, pick, err) IN
       cursor' = [cursor EXCEPT
                    !.iter = u.iter,
                    !.items = IF u.item = None THEN @ ELSE Append(@, Unwrap(u.item)),
                    !.pulls = Append(@, u.calls),
                    !.errs = IF err THEN @ + 1 ELSE @,
                    !.failed = err,
                    !.done = (u.item = None)]
    /\ UNCHANGED <<storage, maps, last, shadow>>

\* one pull at a cursor that keeps failing: once it has failed MaxCursorErrs
\* times, the cursor may fail at every pull from then on.  The closure yields
\* the error each time; the history (items, pulls, errs) is full and keeps
\* only the parity of these pulls
PullFailing ==
    /\ cursor.open
    /\ ~cursor.done
    /\ cursor.errs = MaxCursorErrs
    /\ LET u == unfold(storage, cursor.iter, CHOOSE k \in StorageKeys : TRUE, TRUE)
       IN  cursor' = [cursor EXCEPT
                        !.iter = u.iter,
                        !.failed = TRUE,
                        !.spin = 1 - @,
                        !.done = (u.item = None)]
    /\ UNCHANGED <<storage, maps, last, shadow>>

\* the caller drops the iterator, finished or not
IterDrop ==
    /\ cursor.open
    /\ cursor' = NoIter
    /\ UNCHANGED <<storage, maps, last, shadow>>

Next ==
    \/ \E key \in Roots : New(key)
    \/ \E key \in Roots : Drop(key)
    \/ \E root \in Roots, key \in K, val \in V, fault \in Faults :
          Insert(root, key, val, fault)
    \/ \E root \in Roots, key \in K, fault \in Faults : Remove(root, key, fault)
    \/ \E root \in Roots, key \in K, rdErr \in BOOLEAN : Get(root, key, rdErr)
    \/ \E root \in Roots, err \in BOOLEAN : Iter(root, err)
    \/ \E pick \in StorageKeys, err \in BOOLEAN : Pull(pick, err)
    \/ IterDrop

Spec == Init /\ [][Next]_vars

\* The same program with a caller that, while it holds an unfinished
\* iterator, goes on pulling or drops it, and a cursor that may fail at any
\* number of pulls.
NextLive == Next \/ PullFailing

AnyPull == (\E pick \in StorageKeys, err \in BOOLEAN : Pull(pick, err)) \/ PullFailing

LiveSpec == Init /\ [][NextLive]_vars /\ WF_vars(AnyPull)

----------------------------------------------------------------------------
(* What a call observes, with a backend that does not fail *)

\* the result of get(key) through an instance made with `root`
GetNow(root, key) == get(new(root), storage, key, FALSE).res
\* the same, on the backend as it was before the last call
GetBefore(root, key) == get(new(root), last.pre, key, FALSE).res

LastOk(op) == last.op = op /\ IsOk(last.res)

----------------------------------------------------------------------------
(* C1: round trip.  Right after a successful insert(k, v), a get(k) on the *)
(* unchanged backend returns Some(v) (the backend's read not failing).     *)
C1_RoundTrip ==
    LastOk("insert") => GetNow(last.root, last.key) = Ok(Some(last.val))

\* an insert of the two-byte value over another value has succeeded
C1_Witness ==
    /\ LastOk("insert")
    /\ last.val = 300
    /\ last.res.val = Some(10)

(* C2: previous value.  A successful insert(k, v2) returns what get(k)     *)
(* returned on the backend before it: None when no entry is at the element *)
(* key, Some(v1) when the last successful insert at k's string form, not   *)
(* followed by a remove, wrote v1.                                         *)
C2_PreviousValue ==
    LastOk("insert") =>
        /\ last.res = GetBefore(last.root, last.key)
        /\ last.pre[ElementKey(last.root, to_string(last.key))] = None
              => last.res.val = None
        /\ last.was.st = "absent" => last.res.val = None
        /\ last.was.st = "present" => last.res.val = Some(last.was.val)

\* a second insert returned the value of the first, which differs from its own
C2_Witness ==
    /\ LastOk("insert")
    /\ last.was.st = "present"
    /\ last.was.val # last.val
    /\ last.res.val = Some(last.was.val)

(* C3: remove.  remove(k) of a present key returns Some(stored value) and  *)
(* a get(k) after it returns None; remove(k) of an absent key returns None,*)
(* is no error, and leaves the whole backend as it was.                    *)
C3_Remove ==
    /\ (LastOk("remove") /\ last.was.st = "present") =>
            /\ last.res.val = Some(last.was.val)
            /\ GetNow(last.root, last.key) = Ok(None)
    /\ (last.op = "remove" /\ last.was.st = "absent") =>
            /\ last.fault = "none" => last.res = Ok(None)
            /\ IsOk(last.res) => last.res.val = None
            /\ storage = last.pre

\* a present key has been removed
C3_Witness ==
    /\ LastOk("remove")
    /\ last.was.st = "present"
    /\ last.res.val = Some(300)

\* an absent key has been removed
C3_WitnessAbsent ==
    /\ LastOk("remove")
    /\ last.was.st = "absent"
(* C4: collision by string form.  When insert(k2, v2) directly follows a  *)
(* successful insert(k1, v1) with k1 # k2 and the same string form, it    *)
(* returns Some(v1), get(k1) then returns Some(v2), and the insert is not *)
(* refused: it fails only when the backend does.                          *)
C4_Collision ==
    (last.op = "insert" /\ last.follows # NoKey) =>
        /\ last.follows # last.key
        /\ to_string(last.follows) = to_string(last.key)
        /\ last.fault = "none" => IsOk(last.res)
        /\ IsOk(last.res) =>
             /\ last.res.val = Some(last.was.val)
             /\ GetNow(last.root, last.follows) = Ok(Some(last.val))

\* the second of two colliding inserts has overwritten a different value
C4_Witness ==
    /\ LastOk("insert")
    /\ last.follows # NoKey
    /\ last.was = Present(10)
    /\ last.val = 300

\* the element key of the last call, by the documented layout
LastElementKey == ElementKey(last.root, to_string(last.key))

(* C7 as claimed: an insert that the backend does not fail leaves val at   *)
(* the element key, whatever bytes were there before, decodable or not.    *)
C7_Original ==
    (last.op = "insert" /\ last.fault = "none") =>
        storage[LastElementKey] = Some(Encode(last.val))

(* C7 as amended: an insert that the backend does not fail writes val at   *)
(* the element key, over whatever value was there, when the bytes there    *)
(* decode as V or there are none; when they do not decode it returns the   *)
(* decode error and the backend keeps what it held.                        *)
C7_Amended ==
    (last.op = "insert" /\ last.fault = "none") =>
        IF IsOk(GetBefore(last.root, last.key))
        THEN /\ IsOk(last.res)
             /\ storage[LastElementKey] = Some(Encode(last.val))
        ELSE /\ last.res = Err(DecodeError)
             /\ storage = last.pre

\* an insert has overwritten the bytes of another value
C7_Witness ==
    /\ LastOk("insert")
    /\ last.pre[LastElementKey] = Some(Encode(10))
    /\ storage[LastElementKey] = Some(<<44, 1>>)

(* C8: the key is updated too.  When insert(k2, v) directly follows the    *)
(* insert of an equal but not identical key k1, the map holds k2 and not   *)
(* k1: the backend after it differs from the backend that inserting k1     *)
(* again would have left.                                                  *)
C8_KeyUpdated ==
    (LastOk("insert") /\ last.follows # NoKey) =>
        storage # insert(new(last.root), last.pre, last.follows, last.val,
                         FALSE, FALSE).storage

\* what the previous-value read of the last insert or remove answered
PreviousRead == get(new(last.root), last.pre, last.key, last.fault = "read").res

(* C10: errors propagate, state unchanged.  When the previous-value read   *)
(* of insert or remove fails (the backend's read fails, or the bytes at    *)
(* the element key do not decode), the call returns that error, has issued *)
(* that one read and nothing else, and the backend is as it was.           *)
C10_ErrorsPropagate ==
    (last.op \in {"insert", "remove"} /\ ~IsOk(PreviousRead)) =>
        /\ last.res = PreviousRead
        /\ last.calls = <<"read">>
        /\ storage = last.pre

\* an insert has met bytes that do not decode
C10_Witness ==
    /\ last.op = "insert"
    /\ last.fault = "none"
    /\ last.res = Err(DecodeError)

\* a remove has met a failing backend read
C10_WitnessRemove ==
    /\ last.op = "remove"
    /\ last.fault = "read"
    /\ last.res = Err(BackendError)

\* the backend calls that change the backend's data
Mutating == {"write", "delete"}

\* the keys at which two states of the backend differ
Changed(s, t) == {key \in StorageKeys : s[key] # t[key]}

(* C11: backend call sequence.  A successful get has issued one read and   *)
(* nothing else; a successful insert one read and then one write; a        *)
(* successful remove one read and then one delete, also when the read      *)
(* found no entry.  No call, failed or not, issues more than one mutating  *)
(* backend call, and what it leaves differs from what it found at no more  *)
(* than one key: no state between two writes exists to be observed.        *)
C11_CallSequence ==
    /\ LastOk("get") => last.calls = <<"read">>
    /\ LastOk("insert") => last.calls = <<"read", "write">>
    /\ LastOk("remove") => last.calls = <<"read", "delete">>
    /\ (LastOk("remove") /\ GetBefore(last.root, last.key) = Ok(None)) =>
            last.calls = <<"read", "delete">>
    /\ last.op \in {"get", "insert", "remove"} =>
            /\ Cardinality({i \in 1..Len(last.calls) :
                                last.calls[i] \in Mutating}) <= 1
            /\ Cardinality(Changed(last.pre, storage)) <= 1

\* a remove of a key with no entry has issued its delete all the same
C11_Witness ==
    /\ LastOk("remove")
    /\ GetBefore(last.root, last.key) = Ok(None)
    /\ last.calls = <<"read", "delete">>

(* C12: frame.  insert(k, v) and remove(k), failed or not, change at most  *)
(* the one backend key root / "data" / to_string(k); every other key keeps *)
(* its value, and get(k2) of every k2 with another string form returns     *)
(* what it returned before.  get and iter, and every pull of the iterator, *)
(* leave the whole backend as it was.                                      *)
C12_Frame ==
    /\ last.op \in {"insert", "remove"} =>
            /\ Changed(last.pre, storage) \subseteq {LastElementKey}
            /\ \A k2 \in K : to_string(k2) # to_string(last.key) =>
                    GetNow(last.root, k2) = GetBefore(last.root, k2)
    /\ last.op \in {"get", "iter"} => storage = last.pre
    /\ cursor.open => (last.op = "iter" /\ storage = last.pre)

\* an insert at one key has changed the backend while another key of the
\* same map holds a value
C12_Witness ==
    /\ LastOk("insert")
    /\ to_string(last.key) = "alice"
    /\ Changed(last.pre, storage) = {LastElementKey}
    /\ \E k2 \in K : /\ to_string(k2) = "bob"
                      /\ GetNow(last.root, k2) = Ok(Some(300))
----------------------------------------------------------------------------
(* Iteration *)

\* the data prefix of a map, by the documented layout
DataPrefix(root) == root \o <<"data">>

\* the entries the backend holds under the data prefix of `root`
Entries(root) ==
    {key \in StorageKeys : IsPrefix(DataPrefix(root), key) /\ storage[key] # None}

\* those of them whose bytes do not decode as V
Undecodable(root) ==
    {key \in Entries(root) : ~IsOk(try_from_slice(Unwrap(storage[key])))}

\* the key strings present in the logical collection of `root`
PresentNames(root) == {n \in Names : shadow[root][n].st = "present"}

KeyOf(n) == CHOOSE k \in K : to_string(k) = n

\* The data prefix of `root` started empty and since then only successful
\* inserts and removes through `root` have left entries under it.
OwnEntriesOnly(root) ==
    \A r \in Roots, n \in Names :
        IsPrefix(DataPrefix(root), ElementKey(r, n)) =>
            /\ shadow[r][n].st # "foreign"
            /\ r # root => shadow[r][n].st = "absent"

\* how many of the items yielded so far satisfy P
Count(items, P(_)) == Cardinality({i \in 1..Len(items) : P(items[i])})

\* a full iteration, pulled to the end of the sequence, the cursor never failing
FullIter == cursor.open /\ cursor.done /\ cursor.errs = 0

(* C5: iteration completeness.  On a map whose data prefix started empty   *)
(* and holds only what inserts and removes through it left, a full iter()  *)
(* yields exactly N items, all Ok, N the number of key strings present,    *)
(* and each value as often as get returns it for those keys.               *)
C5_IterationComplete ==
    (FullIter /\ OwnEntriesOnly(cursor.root)) =>
        LET r == cursor.root
            isOk(x) == IsOk(x)
        IN  /\ Len(cursor.items) = Cardinality(PresentNames(r))
            /\ Count(cursor.items, isOk) = Len(cursor.items)
            /\ \A v \in V :
                 LET isV(x) == x = Ok(v) IN
                 Count(cursor.items, isV) =
                     Cardinality({n \in PresentNames(r) :
                                     GetNow(r, KeyOf(n)) = Ok(Some(v))})

\* two keys inserted with different values, and both values yielded
C5_Witness ==
    /\ FullIter
    /\ OwnEntriesOnly(cursor.root)
    /\ cursor.root = <<"m">>
    /\ PresentNames(cursor.root) = {"alice", "bob"}
    /\ {cursor.items[i] : i \in 1..Len(cursor.items)} = {Ok(10), Ok(300)}

(* C6: partial decode resilience.  With exactly one of the N entries under *)
(* the data prefix undecodable, every pull moves over one entry and yields *)
(* one item, the sequence ends only at the end of the data (not at the     *)
(* decode failure), a full iter() has yielded N-1 Ok items and one         *)
(* Err(DecodeError), and get on every other key returns its value.         *)
C6_DecodeResilience ==
    (cursor.open /\ cursor.errs = 0
        /\ Cardinality(Undecodable(cursor.root)) = 1) =>
        LET r == cursor.root
            n == Cardinality(Entries(r))
            isOk(x) == IsOk(x)
            isDecodeErr(x) == x = Err(DecodeError)
        IN  /\ Len(cursor.items) + Cardinality(cursor.iter) = n
            /\ cursor.done => cursor.iter = {}
            /\ cursor.done => /\ Count(cursor.items, isOk) = n - 1
                              /\ Count(cursor.items, isDecodeErr) = 1
            /\ Count(cursor.items, isDecodeErr) <= 1
            /\ \A k \in K :
                 LET e == shadow[r][to_string(k)] IN
                 /\ e.st = "present" => GetNow(r, k) = Ok(Some(e.val))
                 /\ e.st = "absent" => GetNow(r, k) = Ok(None)

\* a full iteration whose first item was the decode error and whose next
\* item was a value
C6_Witness ==
    /\ FullIter
    /\ Cardinality(Undecodable(cursor.root)) = 1
    /\ Len(cursor.items) >= 2
    /\ cursor.items[1] = Err(DecodeError)
    /\ cursor.items[2] = Ok(300)

\* what the closure makes of the bytes of an entry
Decoded(key) == try_from_slice(Unwrap(storage[key]))

\* the state of the iterator: what iter and the pulls so far have issued
\* and yielded
LazyState ==
    /\ last.op = "iter" => last.calls = <<"iter_prefix">>
    /\ cursor.open =>
        LET moved == Entries(cursor.root) \ cursor.iter
            isOk(x) == IsOk(x)
            isDecodeErr(x) == x = Err(DecodeError)
            isCursorErr(x) == x = Err(BackendError)
        IN  /\ cursor.iter \subseteq Entries(cursor.root)
            /\ cursor.pulls = <<>> =>
                    (cursor.iter = Entries(cursor.root) /\ cursor.items = <<>>)
            /\ \A i \in 1..Len(cursor.pulls) : cursor.pulls[i] = <<"iter_next">>
            /\ Len(cursor.pulls) = Len(cursor.items) + (IF cursor.done THEN 1 ELSE 0)
            /\ Count(cursor.items, isCursorErr) = cursor.errs
            /\ Count(cursor.items, isOk) =
                    Cardinality({key \in moved : IsOk(Decoded(key))})
            /\ Count(cursor.items, isDecodeErr) =
                    Cardinality({key \in moved : ~IsOk(Decoded(key))})
            /\ cursor.done => cursor.iter = {}

\* one step of the iterator: iter opens the cursor with one iter_prefix and
\* no pull; a pull issues one iter_next and either yields the cursor's error,
\* or moves over one entry and yields its decoding, or finds the end of the
\* data and ends the sequence
LazyStep ==
    /\ (~cursor.open /\ cursor'.open) =>
            /\ last'.calls = <<"iter_prefix">>
            /\ cursor'.pulls = <<>>
            /\ cursor'.iter = Entries(cursor'.root)
    /\ (cursor.open /\ cursor'.open /\ cursor' # cursor) =>
            /\ cursor'.root = cursor.root
            /\ cursor'.pulls = Append(cursor.pulls, <<"iter_next">>)
            /\ \/ /\ cursor'.errs = cursor.errs + 1
                  /\ cursor'.items = Append(cursor.items, Err(BackendError))
                  /\ cursor'.iter = cursor.iter
                  /\ ~cursor'.done
               \/ /\ cursor'.errs = cursor.errs
                  /\ \E key \in cursor.iter :
                        /\ cursor'.iter = cursor.iter \ {key}
                        /\ cursor'.items = Append(cursor.items, Decoded(key))
                  /\ ~cursor'.done
               \/ /\ cursor'.errs = cursor.errs
                  /\ cursor.iter = {}
                  /\ cursor'.iter = {}
                  /\ cursor'.items = cursor.items
                  /\ cursor'.done

(* C13: iteration is lazy, one step per pull.  iter() issues one           *)
(* iter_prefix and no iter_next, and no entry is moved over before the      *)
(* first pull; each pull issues exactly one iter_next, and yields exactly   *)
(* one item for the one entry the cursor moved over (Ok when it decodes,    *)
(* Err when it does not), or the cursor's error, or ends the sequence at    *)
(* the end of the data; the cursor never moves back and is never opened     *)
(* again.                                                                   *)
C13_Lazy == [](LazyState) /\ [][LazyStep]_vars

\* three pulls: the cursor failed, then moved over an entry that does not
\* decode, then over one that does
C13_Witness ==
    /\ cursor.open
    /\ ~cursor.done
    /\ cursor.items = <<Err(BackendError), Err(DecodeError), Ok(10)>>
    /\ cursor.iter # {}

\* a pull at which the cursor did not fail has ended the sequence or left
\* the cursor fewer entries to visit
Progress ==
    (cursor.open /\ cursor'.open /\ cursor' # cursor /\ ~cursor'.failed) =>
        \/ cursor'.done
        \/ Cardinality(cursor'.iter) < Cardinality(cursor.iter)

(* C14 as claimed: a caller that keeps pulling receives end-of-sequence,   *)
(* whatever Err items were yielded on the way, cursor errors included.     *)
C14_Original == cursor.open ~> (~cursor.open \/ cursor.done)

(* C14 as amended: a caller that keeps pulling receives end-of-sequence    *)
(* unless the cursor goes on failing: from every state of an iteration a   *)
(* pull comes at which the sequence ends or the cursor fails, and every    *)
(* pull at which the cursor does not fail ends the sequence or moves over  *)
(* one of the finitely many entries, a decode failure included.            *)
C14_Amended ==
    /\ cursor.open ~> (~cursor.open \/ cursor.done \/ cursor.failed)
    /\ [][Progress]_vars

\* an iteration has ended after a cursor error and a decode failure
C14_Witness ==
    /\ cursor.open
    /\ cursor.done
    /\ ~cursor.failed
    /\ cursor.items = <<Err(DecodeError), Err(BackendError), Ok(300)>>

----------------------------------------------------------------------------
(* Two maps over one backend *)

\* the items an iterator can yield when the cursor does not fail
Items == {Ok(v) : v \in V} \cup {Err(DecodeError)}

\* what iter() through a map made with `root` yields on the backend s when
\* pulled to the end: how often each item
Yielded(root, s) ==
    LET it == iter(new(root), s, FALSE).res.val IN
    [x \in Items |->
        Cardinality({key \in it : unfold(s, it, key, FALSE).item = Some(x)})]

\* the storage key r2 lies under the data prefix of the map made with r
Nested(r, r2) == r2 # r /\ IsPrefix(DataPrefix(r), r2)

----------------------------------------------------------------------------
(* Instances *)

\* what an instance made with `root` is to observe at key, by the logical
\* collection of `root`
Expected(root, key) ==
    LET e == shadow[root][to_string(key)] IN
    IF e.st = "present" THEN Ok(Some(e.val))
    ELSE IF e.st = "absent" THEN Ok(None)
    ELSE Err(DecodeError)

\* every instance in scope observes the logical collection of the storage
\* key it was made with, whichever instance made the calls, and iterates
\* its entries
ViewState ==
    \A r \in Roots : Live(r) =>
        /\ \A k \in K : get(maps[r].self, storage, k, FALSE).res = Expected(r, k)
        /\ iter(maps[r].self, storage, FALSE).res.val
              \cap {ElementKey(r, n) : n \in Names}
            = {ElementKey(r, n) : n \in {m \in Names : shadow[r][m].st # "absent"}}

\* constructing or dropping an instance changes nothing in the backend
ViewStep == maps' # maps => storage' = storage

(* C9: view, not owner.  Instances made with the same root key observe the *)
(* same logical collection: after any calls through any instances, made    *)
(* and dropped in any order, get through each live instance returns what   *)
(* the calls through that root key left, two such instances iterate the    *)
(* same entries, and making or dropping an instance changes no backend     *)
(* state.                                                                  *)
C9_View == [](ViewState) /\ [][ViewStep]_vars

\* two instances of one storage key in scope, after an insert through that
\* key that found the value of an earlier insert
C9_Witness ==
    /\ LastOk("insert")
    /\ last.res.val = Some(10)
    /\ maps[last.root].n = 2
====
